---- MODULE Spec2Model ----
(***************************************************************************)
(* Model of the document extraction agent (agent/extraction_agent.py):     *)
(* the LangGraph workflow extract -> validate -> END, the per-thread       *)
(* checkpoint kept by MemorySaver, and DocumentExtractionAgent.extract     *)
(* with its process-wide sessions dictionary.                              *)
(***************************************************************************)
EXTENDS Integers, Sequences, FiniteSets, TLC

VARIABLES
    sessions,     \* DocumentExtractionAgent.sessions: session_id -> ExtractionState
    checkpoints,  \* MemorySaver: thread_id -> value of the reducer channel "messages"
    last,         \* the most recent extract() call: arguments, working state, outcome
    history,      \* per session_id, one flag per completed call: was feedback truthy
    calls,        \* number of extract() calls made so far
    validate_in,  \* the state handed to validate_extraction on its own
    validate_out, \* what validate_extraction made of validate_in
    parse_in,     \* a reply text handed to the response parsing on its own
    parse_out,    \* what the parsing made of it, bare and inside fences
    threads,      \* callers inside extract() at the same time: position and locals
    pdf_storage,  \* api/main.py pdf_storage: session_id -> uploaded document
    api_last      \* the most recent API request and its response

agent == <<sessions, checkpoints, last, history, calls>>
pure == <<validate_in, validate_out, parse_in, parse_out>>
conc == <<threads>>
api == <<pdf_storage, api_last>>
vars == <<sessions, checkpoints, last, history, calls, validate_in, validate_out,
          parse_in, parse_out, threads, pdf_storage, api_last>>

-----------------------------------------------------------------------------
(* Bounds and input domains                                                *)

MaxCalls == 3

SessionIds == {"s1"}
Docs == {"d1", "d2"}
Fields == {"f1", "f2"}

\* Python None for the feedback argument; "" is the empty string.
NoFeedback == "<None>"
Feedbacks == {NoFeedback, "", "fix date format"}

\* Python None for an Optional[dict], and a dict given by its items.
PyNone == [kind |-> "None", items |-> <<>>]
Dict(m) == [kind |-> "dict", items |-> m]
EmptyDict == Dict(<<>>)

\* JSON null as a field value.
Null == "null"

\* All dicts with keys in Fields and values in V.
DictsOver(V) == UNION {{Dict(m) : m \in [K -> V]} : K \in SUBSET Fields}

\* Confidence scores are modelled in hundredths: 70 stands for 0.7.
ConfidenceThreshold == 70
Confidences == {69, 70, 71}

\* A JSON schema: the names under "properties" and the "required" list.
SchemaA == [properties |-> {"f1", "f2"}, required |-> <<"f1", "f2">>]
SchemaB == [properties |-> {"f1"}, required |-> <<"f1">>]
Schemas == {SchemaA, SchemaB}

\* The (document_text, json_schema) pairs callers pass to extract().
Requests == {<<"d1", SchemaA>>, <<"d2", SchemaB>>}

\* No entry in the sessions dictionary.
NoSession == [kind |-> "absent"]

-----------------------------------------------------------------------------
(* Messages                                                                *)

AIMessage(content) == [role |-> "ai", content |-> content]
HumanMessage(content) == [role |-> "human", content |-> content]

-----------------------------------------------------------------------------
(* create_extraction_prompt                                                *)

\* `if feedback:` is false for None and for the empty string.
Truthy(feedback) == feedback # NoFeedback /\ feedback # ""

\* Fault variant: the feedback block is never appended.
create_extraction_prompt_noFeedback(document_text, schema, feedback) ==
    [schema_str |-> schema,
     document |-> document_text,
     feedback_block |-> <<>>,
     output_format |-> TRUE]

\* Fault variant: `if feedback is not None`, so empty feedback gets a block.
create_extraction_prompt_unlessNone(document_text, schema, feedback) ==
    [schema_str |-> schema,
     document |-> document_text,
     feedback_block |-> IF feedback # NoFeedback THEN <<feedback>> ELSE <<>>,
     output_format |-> TRUE]

create_extraction_prompt(document_text, schema, feedback) ==
    [schema_str |-> schema,
     document |-> document_text,
     feedback_block |-> IF Truthy(feedback) THEN <<feedback>> ELSE <<>>,
     output_format |-> TRUE]

-----------------------------------------------------------------------------
(* The model's response: llm.invoke either raises or returns a reply.      *)
(* A reply is given by what json.loads makes of its fence-stripped text:   *)
(* not JSON, JSON that is not an object, or an object with its three keys. *)

Absent == [present |-> FALSE, value |-> PyNone]
Present(v) == [present |-> TRUE, value |-> v]

Response(kind, json, data, conf, notes) ==
    [kind |-> kind, json |-> json, extracted_data |-> data,
     confidence_scores |-> conf, extraction_notes |-> notes]

InvokeFailure == Response("failure", "none", Absent, Absent, <<>>)
ReplyNotJson == Response("reply", "invalid", Absent, Absent, <<>>)
ReplyNonObject == Response("reply", "nonobject", Absent, Absent, <<>>)
ReplyObject(data, conf, notes) == Response("reply", "object", data, conf, notes)

\* {} : every key absent.
ReplyEmptyObject == ReplyObject(Absent, Absent, <<>>)
\* {"extracted_data": null, "confidence_scores": null}
ReplyNullData == ReplyObject(Present(PyNone), Present(PyNone), <<>>)
\* both fields extracted, f1 at the threshold, f2 without a score
ReplyGood ==
    ReplyObject(Present(Dict([f \in Fields |-> "v"])),
                Present(Dict([f \in {"f1"} |-> 70])), <<"notes">>)
\* both fields extracted, f1 below the threshold
ReplyLow ==
    ReplyObject(Present(Dict([f \in Fields |-> "v"])),
                Present(Dict([f \in Fields |-> IF f = "f1" THEN 69 ELSE 70])),
                <<"notes">>)

Responses ==
    {InvokeFailure, ReplyNotJson, ReplyNonObject, ReplyEmptyObject,
     ReplyNullData, ReplyGood, ReplyLow}

\* result.get(key, {}) on the decoded object
Get(kv) == IF kv.present THEN kv.value ELSE EmptyDict

-----------------------------------------------------------------------------
(* Message contents                                                        *)

Content(text, notes) == [text |-> text, notes |-> notes]
Note(label, fields) == [label |-> label, fields |-> fields]

-----------------------------------------------------------------------------
(* extract_data: the "extract" node                                        *)

\* llm.invoke raises, or json.loads returned something without .get
extract_data_raises(response) ==
    \/ response.kind = "failure"
    \/ response.json = "nonobject"

\* Fault variant: a parse failure does not count as an attempt.
extract_data_noIncrementOnError(state, response) ==
    IF response.json = "object"
    THEN [state EXCEPT
            !.extracted_data = Get(response.extracted_data),
            !.confidence_scores = Get(response.confidence_scores),
            !.iteration = state.iteration + 1,
            !.status = "extracted",
            !.messages = <<AIMessage(Content("Extraction completed. Notes",
                            <<Note("notes", IF response.extraction_notes = <<>>
                                            THEN <<"None">>
                                            ELSE response.extraction_notes)>>))>>]
    ELSE [state EXCEPT
            !.extracted_data = EmptyDict,
            !.confidence_scores = EmptyDict,
            !.status = "error",
            !.messages = <<AIMessage(Content("Error parsing extraction result", <<>>))>>]

\* Fault variant: a parse failure is reported under a status of its own.
extract_data_parseFailedStatus(state, response) ==
    IF response.json = "object"
    THEN [state EXCEPT
            !.extracted_data = Get(response.extracted_data),
            !.confidence_scores = Get(response.confidence_scores),
            !.iteration = state.iteration + 1,
            !.status = "extracted",
            !.messages = <<AIMessage(Content("Extraction completed. Notes",
                            <<Note("notes", IF response.extraction_notes = <<>>
                                            THEN <<"None">>
                                            ELSE response.extraction_notes)>>))>>]
    ELSE [state EXCEPT
            !.extracted_data = EmptyDict,
            !.confidence_scores = EmptyDict,
            !.iteration = state.iteration + 1,
            !.status = "parse_failed",
            !.messages = <<AIMessage(Content("Error parsing extraction result", <<>>))>>]

\* The dict the node returns ({**state, ...}); "messages" is the update that
\* the reducer appends.
extract_data(state, response) ==
    IF response.json = "object"
    THEN [state EXCEPT
            !.extracted_data = Get(response.extracted_data),
            !.confidence_scores = Get(response.confidence_scores),
            !.iteration = state.iteration + 1,
            !.status = "extracted",
            !.messages = <<AIMessage(Content("Extraction completed. Notes",
                            <<Note("notes", IF response.extraction_notes = <<>>
                                            THEN <<"None">>
                                            ELSE response.extraction_notes)>>))>>]
    ELSE [state EXCEPT
            !.extracted_data = EmptyDict,
            !.confidence_scores = EmptyDict,
            !.iteration = state.iteration + 1,
            !.status = "error",
            !.messages = <<AIMessage(Content("Error parsing extraction result", <<>>))>>]

-----------------------------------------------------------------------------
(* validate_extraction: the "validate" node                                *)

\* field not in extracted or extracted[field] is None
IsMissing(extracted, field) ==
    \/ field \notin DOMAIN extracted.items
    \/ extracted.items[field] = Null

\* Fault variant: the threshold itself counts as low (<= 0.7).
IsLowConfidence_inclusive(confidence, field) ==
    /\ field \in DOMAIN confidence.items
    /\ confidence.items[field] <= ConfidenceThreshold

\* field in confidence and confidence[field] < 0.7
IsLowConfidence(confidence, field) ==
    /\ field \in DOMAIN confidence.items
    /\ confidence.items[field] < ConfidenceThreshold

required_fields(schema) == schema.required

missing_fields(state) ==
    SelectSeq(required_fields(state.json_schema),
              LAMBDA f : IsMissing(state.extracted_data, f))

\* Fault variant: `if` instead of `elif`, so a missing field with a low score
\* is listed in both groups.
low_confidence_fields_independent(state) ==
    SelectSeq(required_fields(state.json_schema),
              LAMBDA f : IsLowConfidence(state.confidence_scores, f))

low_confidence_fields(state) ==
    SelectSeq(required_fields(state.json_schema),
              LAMBDA f : /\ ~IsMissing(state.extracted_data, f)
                         /\ IsLowConfidence(state.confidence_scores, f))

\* `field not in None` and `field in None` raise TypeError.
validate_extraction_raises(state) ==
    LET required == required_fields(state.json_schema) IN
    /\ required # <<>>
    /\ \/ state.extracted_data = PyNone
       \/ /\ state.confidence_scores = PyNone
          /\ \E i \in 1..Len(required) : ~IsMissing(state.extracted_data, required[i])

\* Fault variant: a needs_review verdict empties the recorded scores.
validate_extraction_dropsScores(state) ==
    LET missing == missing_fields(state)
        low == low_confidence_fields(state)
    IN IF missing # <<>> \/ low # <<>>
       THEN [state EXCEPT
               !.status = "needs_review",
               !.confidence_scores = EmptyDict,
               !.messages = <<AIMessage(Content("Validation",
                    (IF missing # <<>>
                     THEN <<Note("Missing required fields", missing)>> ELSE <<>>)
                    \o (IF low # <<>>
                        THEN <<Note("Low confidence fields", low)>> ELSE <<>>)))>>]
       ELSE [state EXCEPT
               !.status = "validated",
               !.messages = <<AIMessage(Content(
                    "All required fields extracted with good confidence.", <<>>))>>]

validate_extraction(state) ==
    LET missing == missing_fields(state)
        low == low_confidence_fields(state)
    IN IF missing # <<>> \/ low # <<>>
       THEN [state EXCEPT
               !.status = "needs_review",
               !.messages = <<AIMessage(Content("Validation",
                    (IF missing # <<>>
                     THEN <<Note("Missing required fields", missing)>> ELSE <<>>)
                    \o (IF low # <<>>
                        THEN <<Note("Low confidence fields", low)>> ELSE <<>>)))>>]
       ELSE [state EXCEPT
               !.status = "validated",
               !.messages = <<AIMessage(Content(
                    "All required fields extracted with good confidence.", <<>>))>>]

check_feedback_needed(state) ==
    IF state.status = "needs_review" THEN "wait_feedback"
    ELSE IF state.iteration >= state.max_iterations THEN "end"
    ELSE "end"

apply_feedback(state) ==
    [state EXCEPT
        !.status = "reprocessing",
        !.messages = <<HumanMessage(Content("Applying feedback",
                          <<Note("feedback", <<state.human_feedback>>)>>))>>]

-----------------------------------------------------------------------------
(* create_extraction_graph: the compiled workflow with its checkpointer    *)

END == "__end__"
EntryPoint == "extract"

\* Fault variant: a needs_review verdict loops back through apply_feedback
\* until max_iterations is reached.
NextNode_enforcing(node, state) ==
    CASE node = "extract" -> "validate"
      [] node = "validate" ->
            (IF state.status = "needs_review" /\ state.iteration < state.max_iterations
             THEN "apply_feedback" ELSE END)
      [] node = "apply_feedback" -> "extract"

\* add_edge("extract", "validate"); the conditional edges of "validate" map
\* both routes to END; add_edge("apply_feedback", "extract").
NextNode(node, state) ==
    CASE node = "extract" -> "validate"
      [] node = "validate" ->
            (IF check_feedback_needed(state) = "wait_feedback" THEN END ELSE END)
      [] node = "apply_feedback" -> "extract"

NodeRaises(node, state, response) ==
    CASE node = "extract" ->
            (IF response.kind = "failure" THEN "invoke"
             ELSE IF extract_data_raises(response) THEN "AttributeError"
             ELSE "no")
      [] node = "validate" ->
            (IF validate_extraction_raises(state) THEN "TypeError" ELSE "no")
      [] node = "apply_feedback" -> "no"

NodeUpdate(node, state, response) ==
    CASE node = "extract" -> extract_data(state, response)
      [] node = "validate" -> validate_extraction(state)
      [] node = "apply_feedback" -> apply_feedback(state)

\* A node's returned dict is written to the channels: "messages" is
\* Annotated[list, add] and is appended to, every other key is overwritten.
ApplyUpdate(channels, update) ==
    [update EXCEPT !.messages = channels.messages \o update.messages]

RECURSIVE RunFrom(_, _, _, _, _)
RunFrom(node, channels, response, trace, prompts) ==
    IF node = END
    THEN [raised |-> "no", state |-> channels, checkpoint |-> channels.messages,
          trace |-> trace, prompts |-> prompts]
    ELSE LET seen == Append(trace, node)
             asked == IF node = "extract"
                      THEN Append(prompts,
                                  create_extraction_prompt(channels.document_text,
                                                           channels.json_schema,
                                                           channels.human_feedback))
                      ELSE prompts
             error == NodeRaises(node, channels, response)
         IN IF error # "no"
            THEN [raised |-> error, state |-> channels,
                  checkpoint |-> channels.messages,
                  trace |-> seen, prompts |-> asked]
            ELSE LET after == ApplyUpdate(channels, NodeUpdate(node, channels, response))
                 IN RunFrom(NextNode(node, after), after, response, seen, asked)

\* Fault variant: a graph compiled without the checkpointer starts every run
\* from the input alone.
GraphInvoke_noCheckpoint(initial_state, checkpointed, response) ==
    RunFrom(EntryPoint, initial_state, response, <<>>, <<>>)

\* graph.invoke(initial_state, config): the input is written to the thread's
\* channels (appended to the checkpointed "messages"), then the nodes run from
\* the entry point.
GraphInvoke(initial_state, checkpointed, response) ==
    RunFrom(EntryPoint,
            [initial_state EXCEPT !.messages = checkpointed \o initial_state.messages],
            response, <<>>, <<>>)

-----------------------------------------------------------------------------
(* DocumentExtractionAgent                                                 *)

MaxIterations == 3

FreshState(document_text, json_schema, feedback) ==
    [document_text |-> document_text,
     json_schema |-> json_schema,
     extracted_data |-> PyNone,
     confidence_scores |-> PyNone,
     human_feedback |-> feedback,
     iteration |-> 0,
     max_iterations |-> MaxIterations,
     status |-> "started",
     messages |-> <<>>]

\* Fault variant: a re-run with feedback restarts the iteration counter.
InitialState_restart(prev_state, document_text, json_schema, feedback) ==
    IF Truthy(feedback) /\ prev_state # NoSession
    THEN [prev_state EXCEPT !.human_feedback = feedback, !.status = "reprocessing",
                            !.iteration = 0]
    ELSE FreshState(document_text, json_schema, feedback)

\* Fault variant: a re-run with feedback takes the call's document and schema.
InitialState_takesArguments(prev_state, document_text, json_schema, feedback) ==
    IF Truthy(feedback) /\ prev_state # NoSession
    THEN [prev_state EXCEPT !.human_feedback = feedback, !.status = "reprocessing",
                            !.document_text = document_text,
                            !.json_schema = json_schema]
    ELSE FreshState(document_text, json_schema, feedback)

\* Fault variant: a fresh state does not keep the feedback.
InitialState_dropsFeedback(prev_state, document_text, json_schema, feedback) ==
    IF Truthy(feedback) /\ prev_state # NoSession
    THEN [prev_state EXCEPT !.human_feedback = feedback, !.status = "reprocessing"]
    ELSE FreshState(document_text, json_schema, NoFeedback)

\* Fault variant: a call without feedback keeps the stored document and schema.
InitialState_keepsStored(prev_state, document_text, json_schema, feedback) ==
    IF Truthy(feedback) /\ prev_state # NoSession
    THEN [prev_state EXCEPT !.human_feedback = feedback, !.status = "reprocessing"]
    ELSE IF prev_state # NoSession
         THEN FreshState(prev_state.document_text, prev_state.json_schema, feedback)
         ELSE FreshState(document_text, json_schema, feedback)

\* Fault variant: only a stored state awaiting review is re-run with feedback.
InitialState_fromNeedsReview(prev_state, document_text, json_schema, feedback) ==
    IF /\ Truthy(feedback)
       /\ prev_state # NoSession
       /\ prev_state.status \in {"needs_review", "error"}
    THEN [prev_state EXCEPT !.human_feedback = feedback, !.status = "reprocessing"]
    ELSE FreshState(document_text, json_schema, feedback)

\* Fault variant: a call without feedback carries the stored iteration on.
InitialState_keepsIteration(prev_state, document_text, json_schema, feedback) ==
    IF Truthy(feedback) /\ prev_state # NoSession
    THEN [prev_state EXCEPT !.human_feedback = feedback, !.status = "reprocessing"]
    ELSE IF prev_state # NoSession
         THEN [FreshState(document_text, json_schema, feedback) EXCEPT
                  !.iteration = prev_state.iteration]
         ELSE FreshState(document_text, json_schema, feedback)

\* The working state extract() builds before running the graph.
InitialState(prev_state, document_text, json_schema, feedback) ==
    IF Truthy(feedback) /\ prev_state # NoSession
    THEN [prev_state EXCEPT !.human_feedback = feedback, !.status = "reprocessing"]
    ELSE FreshState(document_text, json_schema, feedback)

\* Fault variant: the flag is compared with a status that never occurs.
ResultOf_neverFlags(session_id, result) ==
    [session_id |-> session_id,
     status |-> result.status,
     extracted_data |-> result.extracted_data,
     confidence_scores |-> result.confidence_scores,
     iteration |-> result.iteration,
     needs_feedback |-> (result.status = "needs_feedback")]

\* The dict extract() returns.
ResultOf(session_id, result) ==
    [session_id |-> session_id,
     status |-> result.status,
     extracted_data |-> result.extracted_data,
     confidence_scores |-> result.confidence_scores,
     iteration |-> result.iteration,
     needs_feedback |-> (result.status = "needs_review")]

NoResult == [kind |-> "raised"]
NoCall == [op |-> "none"]

get_session(session_id) == sessions[session_id]

\* Fault variant: the working state is stored even when graph.invoke raised.
Persist_always(session_id, run) ==
    [sessions EXCEPT ![session_id] = run.state]

\* Fault variant: an existing entry is kept (setdefault instead of assignment).
Persist_ifAbsent(session_id, run) ==
    IF run.raised = "no" /\ sessions[session_id] = NoSession
    THEN [sessions EXCEPT ![session_id] = run.state]
    ELSE sessions

\* Fault variant: a store that does not advance the iteration is rejected.
Persist_versioned(session_id, run) ==
    IF /\ run.raised = "no"
       /\ \/ sessions[session_id] = NoSession
          \/ run.state.iteration > sessions[session_id].iteration
    THEN [sessions EXCEPT ![session_id] = run.state]
    ELSE sessions

\* Fault variant: the store replaces the whole dict by the one new entry.
Persist_replacesAll(session_id, run) ==
    IF run.raised = "no"
    THEN [s \in DOMAIN sessions |-> IF s = session_id THEN run.state ELSE NoSession]
    ELSE sessions

\* self.sessions[session_id] = result, reached only when graph.invoke returned.
Persist(session_id, run) ==
    IF run.raised = "no"
    THEN [sessions EXCEPT ![session_id] = run.state]
    ELSE sessions

NotRun == [kind |-> "not run"]

InitAgent ==
    /\ sessions = [s \in SessionIds |-> NoSession]
    /\ checkpoints = [s \in SessionIds |-> <<>>]
    /\ last = NoCall
    /\ history = [s \in SessionIds |-> <<>>]
    /\ calls = 0

IdleValidate == validate_in = NotRun /\ validate_out = NotRun
IdleParse == parse_in = NotRun /\ parse_out = NotRun
\* nobody is inside extract() concurrently
IdleConc == threads = <<>>
\* no upload and no request yet
IdleApi == pdf_storage = <<>> /\ api_last = NoCall

Init ==
    /\ InitAgent
    /\ IdleValidate
    /\ IdleParse
    /\ IdleConc
    /\ IdleApi

\* One whole call of DocumentExtractionAgent.extract: its effect on the agent.
extract_effect(session_id, document_text, json_schema, feedback, response) ==
    /\ LET prev_state == sessions[session_id]
           initial_state == InitialState(prev_state, document_text, json_schema, feedback)
           run == GraphInvoke(initial_state, checkpoints[session_id], response)
       IN /\ checkpoints' = [checkpoints EXCEPT ![session_id] = run.checkpoint]
          /\ sessions' = Persist(session_id, run)
          /\ history' = IF run.raised = "no"
                        THEN [history EXCEPT ![session_id] = Append(@, Truthy(feedback))]
                        ELSE history
          /\ last' = [op |-> "extract",
                      session_id |-> session_id,
                      document_text |-> document_text,
                      json_schema |-> json_schema,
                      feedback |-> feedback,
                      response |-> response,
                      prev_state |-> prev_state,
                      initial_state |-> initial_state,
                      prompts |-> run.prompts,
                      trace |-> run.trace,
                      raised |-> run.raised,
                      result |-> IF run.raised = "no"
                                 THEN ResultOf(session_id, run.state)
                                 ELSE NoResult]
    /\ calls' = calls + 1

\* extract() called directly on the agent.
extract_call(session_id, document_text, json_schema, feedback, response) ==
    /\ extract_effect(session_id, document_text, json_schema, feedback, response)
    /\ UNCHANGED <<pure, conc, api>>

extract(session_id, document_text, json_schema, feedback, response) ==
    /\ calls < MaxCalls
    /\ extract_call(session_id, document_text, json_schema, feedback, response)

Next ==
    \E session_id \in SessionIds, request \in Requests,
       feedback \in Feedbacks, response \in Responses :
        extract(session_id, request[1], request[2], feedback, response)

Spec == Init /\ [][Next]_vars

-----------------------------------------------------------------------------
(* validate_extraction on its own, over every schema, extracted_data and   *)
(* confidence_scores of the bounded domains.                               *)

\* "required" lists without repetition.
RequiredLists ==
    {<<>>} \cup {<<f>> : f \in Fields}
           \cup {<<f, g>> : <<f, g>> \in {p \in Fields \X Fields : p[1] # p[2]}}

AllSchemas ==
    {[properties |-> P, required |-> R] : P \in SUBSET Fields, R \in RequiredLists}

ExtractedState(schema, data, conf, status) ==
    [document_text |-> "d1",
     json_schema |-> schema,
     extracted_data |-> data,
     confidence_scores |-> conf,
     human_feedback |-> NoFeedback,
     iteration |-> 1,
     max_iterations |-> MaxIterations,
     status |-> status,
     messages |-> <<>>]

\* The states the "validate" node can be handed: what extract_data returned,
\* after a decoded object or after a parse failure.
ValidateInputs ==
    {ExtractedState(schema, data, conf, "extracted") :
        schema \in AllSchemas,
        data \in DictsOver({"v", Null}) \cup {PyNone},
        conf \in DictsOver(Confidences) \cup {PyNone}}
    \cup {ExtractedState(schema, EmptyDict, EmptyDict, "error") : schema \in AllSchemas}

RaisedTypeError == [kind |-> "TypeError"]

InitValidate ==
    /\ InitAgent
    /\ validate_in \in ValidateInputs
    /\ validate_out = NotRun
    /\ IdleParse
    /\ IdleConc
    /\ IdleApi

Validate ==
    /\ validate_out = NotRun
    /\ validate_out' = IF validate_extraction_raises(validate_in)
                       THEN RaisedTypeError
                       ELSE ApplyUpdate(validate_in, validate_extraction(validate_in))
    /\ UNCHANGED <<validate_in, parse_in, parse_out, agent, conc, api>>

NextValidate == Validate

SpecValidate == InitValidate /\ [][NextValidate]_vars

-----------------------------------------------------------------------------
(* Callers inside extract() at the same time. extract() holds no lock, so  *)
(* a caller can be preempted between reading self.sessions (line 256),     *)
(* entering graph.invoke (line 278), the return of the blocking llm.invoke *)
(* (line 102) and the store into self.sessions (line 281).                 *)

MaxThreadCalls == 3
Threads == {"t1", "t2"}
ThreadSessionIds == {"s1", "s2"}
ThreadFeedbacks == {NoFeedback, "fix date format"}
ThreadResponses == {InvokeFailure, ReplyLow}

NoRun == [raised |-> "none", state |-> NoSession, checkpoint |-> <<>>,
          trace |-> <<>>, prompts |-> <<>>]

IdleThread ==
    [pc |-> "idle",
     session_id |-> "none",
     document_text |-> "none",
     json_schema |-> SchemaA,
     feedback |-> NoFeedback,
     response |-> InvokeFailure,
     prev_state |-> NoSession,
     seen_checkpoint |-> <<>>,
     initial_state |-> NoSession,
     channels |-> NoSession,
     run |-> NoRun,
     overlapped |-> FALSE,
     call_no |-> 0,
     write_no |-> 0]

\* overlapped: another call for the same session was in progress during this
\* one; call_no: the call's rank among all calls; write_no: the rank of its
\* store among the stores of its session.
InsideCall(thread) == thread.pc \in {"read", "running", "finished"}

\* The callers after a step of t on session_id: t's own record is replaced,
\* and every other caller that is inside a call for the same session is
\* marked as having shared the session with another call.
StepOf(t, session_id, record) ==
    [u \in Threads |->
        IF u = t THEN record
        ELSE IF InsideCall(threads[u]) /\ threads[u].session_id = session_id
        THEN [threads[u] EXCEPT !.overlapped = TRUE]
        ELSE threads[u]]

InitThreads ==
    /\ sessions = [s \in ThreadSessionIds |-> NoSession]
    /\ checkpoints = [s \in ThreadSessionIds |-> <<>>]
    /\ last = NoCall
    /\ history = [s \in ThreadSessionIds |-> <<>>]
    /\ calls = 0
    /\ threads = [t \in Threads |-> IdleThread]
    /\ IdleValidate
    /\ IdleParse
    /\ IdleApi

\* lines 254-275: the caller reads the Session Store and builds initial_state
read_session(t, session_id, document_text, json_schema, feedback) ==
    /\ calls < MaxThreadCalls
    /\ ~InsideCall(threads[t])
    /\ LET prev_state == sessions[session_id]
           others == {u \in Threads \ {t} :
                         InsideCall(threads[u]) /\ threads[u].session_id = session_id}
       IN threads' = StepOf(t, session_id,
              [pc |-> "read",
               session_id |-> session_id,
               document_text |-> document_text,
               json_schema |-> json_schema,
               feedback |-> feedback,
               response |-> InvokeFailure,
               prev_state |-> prev_state,
               seen_checkpoint |-> checkpoints[session_id],
               initial_state |-> InitialState(prev_state, document_text,
                                              json_schema, feedback),
               channels |-> NoSession,
               run |-> NoRun,
               overlapped |-> (others # {}),
               call_no |-> calls + 1,
               write_no |-> 0])
    /\ calls' = calls + 1
    /\ UNCHANGED <<sessions, checkpoints, last, history, pure, api>>

\* line 278, entering graph.invoke: the input is written to the channels of
\* the thread_id's checkpoint, and the checkpoint is saved.
graph_start(t) ==
    /\ threads[t].pc = "read"
    /\ LET session_id == threads[t].session_id
           initial_state == threads[t].initial_state
           channels == [initial_state EXCEPT
                           !.messages = checkpoints[session_id] \o initial_state.messages]
       IN /\ threads' = StepOf(t, session_id,
                               [threads[t] EXCEPT !.pc = "running", !.channels = channels])
          /\ checkpoints' = [checkpoints EXCEPT ![session_id] = channels.messages]
    /\ UNCHANGED <<sessions, last, history, calls, pure, api>>

RaisedCall(thread) ==
    [op |-> "extract",
     session_id |-> thread.session_id,
     document_text |-> thread.document_text,
     json_schema |-> thread.json_schema,
     feedback |-> thread.feedback,
     response |-> thread.response,
     prev_state |-> thread.prev_state,
     initial_state |-> thread.initial_state,
     prompts |-> thread.run.prompts,
     trace |-> thread.run.trace,
     raised |-> thread.run.raised,
     result |-> NoResult]

ReturnedCall(thread) ==
    [RaisedCall(thread) EXCEPT !.result = ResultOf(thread.session_id, thread.run.state)]

\* line 278, the rest of graph.invoke: llm.invoke returns or raises, the nodes
\* run to END and the checkpoint is saved; an exception leaves extract().
graph_finish(t, response) ==
    /\ threads[t].pc = "running"
    /\ LET session_id == threads[t].session_id
           run == RunFrom(EntryPoint, threads[t].channels, response, <<>>, <<>>)
           after == [threads[t] EXCEPT
                        !.pc = IF run.raised = "no" THEN "finished" ELSE "raised",
                        !.response = response,
                        !.run = run]
       IN /\ threads' = StepOf(t, session_id, after)
          /\ checkpoints' = [checkpoints EXCEPT ![session_id] = run.checkpoint]
          /\ last' = IF run.raised = "no" THEN last ELSE RaisedCall(after)
    /\ UNCHANGED <<sessions, history, calls, pure, api>>

\* lines 281-290: the store into self.sessions and the return
store_result(t) ==
    /\ threads[t].pc = "finished"
    /\ LET session_id == threads[t].session_id
           after == [threads[t] EXCEPT !.pc = "returned",
                                       !.write_no = Len(history[session_id]) + 1]
       IN /\ sessions' = Persist(session_id, threads[t].run)
          /\ threads' = StepOf(t, session_id, after)
          /\ history' = [history EXCEPT ![session_id] = Append(@, Truthy(threads[t].feedback))]
          /\ last' = ReturnedCall(after)
    /\ UNCHANGED <<checkpoints, calls, pure, api>>

NextThreads ==
    \/ \E t \in Threads, session_id \in ThreadSessionIds, feedback \in ThreadFeedbacks :
           read_session(t, session_id, "d1", SchemaA, feedback)
    \/ \E t \in Threads : graph_start(t)
    \/ \E t \in Threads, response \in ThreadResponses : graph_finish(t, response)
    \/ \E t \in Threads : store_result(t)

SpecThreads == InitThreads /\ [][NextThreads]_vars

-----------------------------------------------------------------------------
(* The HTTP collaborator (src/api/main.py): uploads in pdf_storage, the    *)
(* agent's Session Store behind it.                                        *)

MaxApiCalls == 2
ApiSessionIds == {"s1", "s2"}
ApiResponses == {InvokeFailure, ReplyNotJson, ReplyGood, ReplyLow}
\* The json_schema form field: the text of a schema, or text json.loads rejects.
SchemaString(schema) == [json |-> "object", value |-> schema]
InvalidSchema == [json |-> "invalid"]
SchemaStrings == {SchemaString(SchemaA), SchemaString(SchemaB), InvalidSchema}
Files == {"d1", "not a pdf", "unreadable"}

NoUpload == [kind |-> "absent"]
Uploaded(text) == [kind |-> "pdf", text |-> text]

HttpResponse(op, session_id, status, body) ==
    [op |-> op, session_id |-> session_id, status |-> status, body |-> body]

NoBody == [kind |-> "none"]

InitApi ==
    /\ sessions = [s \in ApiSessionIds |-> NoSession]
    /\ checkpoints = [s \in ApiSessionIds |-> <<>>]
    /\ last = NoCall
    /\ history = [s \in ApiSessionIds |-> <<>>]
    /\ calls = 0
    /\ pdf_storage = [s \in ApiSessionIds |-> NoUpload]
    /\ api_last = NoCall
    /\ IdleValidate
    /\ IdleParse
    /\ IdleConc

\* str(uuid.uuid4()): an identifier nothing has used
FreshId(session_id) ==
    /\ pdf_storage[session_id] = NoUpload
    /\ sessions[session_id] = NoSession
    /\ checkpoints[session_id] = <<>>

\* POST /upload
upload_pdf(session_id, file) ==
    /\ FreshId(session_id)
    /\ IF file = "not a pdf"
       THEN /\ api_last' = HttpResponse("upload", session_id, 400, NoBody)
            /\ UNCHANGED pdf_storage
       ELSE IF file = "unreadable"
       THEN /\ api_last' = HttpResponse("upload", session_id, 500, NoBody)
            /\ UNCHANGED pdf_storage
       ELSE /\ pdf_storage' = [pdf_storage EXCEPT ![session_id] = Uploaded(file)]
            /\ api_last' = HttpResponse("upload", session_id, 200, NoBody)
    /\ UNCHANGED <<agent, pure, conc>>

\* The agent call of a handler and the response made of it: 500 when
\* extract() raised.
agent_extract(op, session_id, document_text, json_schema, feedback, response) ==
    /\ calls < MaxApiCalls
    /\ extract_effect(session_id, document_text, json_schema, feedback, response)
    /\ api_last' = IF last'.raised = "no"
                   THEN HttpResponse(op, session_id, 200, last'.result)
                   ELSE HttpResponse(op, session_id, 500, NoBody)
    /\ UNCHANGED <<pdf_storage, pure, conc>>

Rejected(op, session_id, status) ==
    /\ api_last' = HttpResponse(op, session_id, status, NoBody)
    /\ UNCHANGED <<pdf_storage, agent, pure, conc>>

\* POST /extract/{session_id}
extract_fields(session_id, json_schema, response) ==
    IF pdf_storage[session_id] = NoUpload
    THEN Rejected("extract", session_id, 404)
    ELSE IF json_schema.json = "invalid"
    THEN Rejected("extract", session_id, 400)
    ELSE agent_extract("extract", session_id, pdf_storage[session_id].text,
                       json_schema.value, NoFeedback, response)

\* Fault variant: without extraction state the feedback request is run as a
\* first extraction instead of being rejected.
submit_feedback_withoutState(session_id, feedback, response) ==
    IF pdf_storage[session_id] = NoUpload
    THEN Rejected("feedback", session_id, 404)
    ELSE agent_extract("feedback", session_id, pdf_storage[session_id].text,
                       IF get_session(session_id) = NoSession
                       THEN SchemaA ELSE get_session(session_id).json_schema,
                       feedback, response)

\* POST /feedback
submit_feedback(session_id, feedback, response) ==
    IF pdf_storage[session_id] = NoUpload
    THEN Rejected("feedback", session_id, 404)
    ELSE IF get_session(session_id) = NoSession
    THEN Rejected("feedback", session_id, 404)
    ELSE agent_extract("feedback", session_id, pdf_storage[session_id].text,
                       get_session(session_id).json_schema, feedback, response)

\* GET /session/{session_id}
get_session_status(session_id) ==
    IF pdf_storage[session_id] = NoUpload
    THEN Rejected("status", session_id, 404)
    ELSE /\ api_last' =
              HttpResponse("status", session_id, 200,
                  LET session_state == get_session(session_id)
                  IN [has_extraction |-> session_state # NoSession,
                      extraction_status |-> IF session_state # NoSession
                                            THEN session_state.status ELSE Null,
                      iteration |-> IF session_state # NoSession
                                    THEN session_state.iteration ELSE 0])
         /\ UNCHANGED <<pdf_storage, agent, pure, conc>>

\* DELETE /session/{session_id}: the upload is removed from pdf_storage; the
\* handler does not touch extraction_agent.
delete_session(session_id) ==
    IF pdf_storage[session_id] = NoUpload
    THEN Rejected("delete", session_id, 404)
    ELSE /\ pdf_storage' = [pdf_storage EXCEPT ![session_id] = NoUpload]
         /\ api_last' = HttpResponse("delete", session_id, 200, NoBody)
         /\ UNCHANGED <<agent, pure, conc>>

NextApi ==
    \/ \E session_id \in ApiSessionIds, file \in Files : upload_pdf(session_id, file)
    \/ \E session_id \in ApiSessionIds, json_schema \in SchemaStrings,
          response \in ApiResponses : extract_fields(session_id, json_schema, response)
    \/ \E session_id \in ApiSessionIds, feedback \in Feedbacks \ {NoFeedback},
          response \in ApiResponses : submit_feedback(session_id, feedback, response)
    \/ \E session_id \in ApiSessionIds : get_session_status(session_id)
    \/ \E session_id \in ApiSessionIds : delete_session(session_id)

SpecApi == InitApi /\ [][NextApi]_vars

-----------------------------------------------------------------------------
(* Response parsing (extract_data, lines 106-114) on reply texts.          *)
(* A text is a sequence of pieces: the fence marker, the word json, white  *)
(* space, the braces of an object, the quote of a string, any other text.  *)

\* the three-backtick marker
FENCE == "fence"
JSONTAG == "json"
WS == "\n"
LBRACE == "{"
RBRACE == "}"
QUOTE == "\""
COLON == ":"
PLAIN == "x"

MaxStringLen == 4

\* What a JSON string value can contain here (no quote: escapes are left out).
StringPieces == {FENCE, JSONTAG, WS, LBRACE, RBRACE, PLAIN}

SeqsUpTo(S, n) == UNION {[1..k -> S] : k \in 0..n}

\* An extraction payload, by the string value it holds under extraction_notes
\* (extracted_data and confidence_scores hold no strings and are left out).
Payloads == {[extraction_notes |-> v] : v \in SeqsUpTo(StringPieces, MaxStringLen)}

\* json.dumps of a payload: an object with its one string member.
json_dumps(payload) ==
    <<LBRACE, QUOTE, "extraction_notes", QUOTE, COLON, QUOTE>>
    \o payload.extraction_notes
    \o <<QUOTE, RBRACE>>

Min(S) == CHOOSE x \in S : \A y \in S : x <= y

\* the json-tagged marker occurs in text: a fence marker directly followed by json
JsonFenceAt(text) == {i \in 1..(Len(text) - 1) : text[i] = FENCE /\ text[i + 1] = JSONTAG}
FenceAt(text) == {i \in 1..Len(text) : text[i] = FENCE}

\* text.split(FENCE)[0]
BeforeFence(text) ==
    IF FenceAt(text) = {} THEN text ELSE SubSeq(text, 1, Min(FenceAt(text)) - 1)

\* text.split(FENCE + "json")[1].split(FENCE)[0]
AfterJsonFence(text) ==
    BeforeFence(SubSeq(text, Min(JsonFenceAt(text)) + 2, Len(text)))

\* text.split(FENCE)[1].split(FENCE)[0]
AfterFence(text) ==
    BeforeFence(SubSeq(text, Min(FenceAt(text)) + 1, Len(text)))

\* Fault variant: any fence marker is looked for first, so a json-tagged
\* block keeps its tag.
StripCodeBlock_genericFirst(text) ==
    IF FenceAt(text) # {} THEN AfterFence(text)
    ELSE IF JsonFenceAt(text) # {} THEN AfterJsonFence(text)
    ELSE text

\* lines 109-112
StripCodeBlock(text) ==
    IF JsonFenceAt(text) # {} THEN AfterJsonFence(text)
    ELSE IF FenceAt(text) # {} THEN AfterFence(text)
    ELSE text

\* str.strip()
RECURSIVE LStrip(_)
LStrip(text) ==
    IF text # <<>> /\ Head(text) = WS THEN LStrip(Tail(text)) ELSE text

RECURSIVE RStrip(_)
RStrip(text) ==
    IF text # <<>> /\ text[Len(text)] = WS
    THEN RStrip(SubSeq(text, 1, Len(text) - 1)) ELSE text

Strip(text) == RStrip(LStrip(text))

Token(kind, content) == [kind |-> kind, content |-> content]
BadTokens == <<Token("bad", <<>>)>>

\* The JSON tokens of a text: braces, colons and string literals, white space
\* between them skipped; anything else, or an unterminated string, is no JSON.
RECURSIVE Tokens(_, _, _)
Tokens(text, i, acc) ==
    IF i > Len(text) THEN acc
    ELSE IF text[i] = WS THEN Tokens(text, i + 1, acc)
    ELSE IF text[i] = LBRACE THEN Tokens(text, i + 1, Append(acc, Token("{", <<>>)))
    ELSE IF text[i] = RBRACE THEN Tokens(text, i + 1, Append(acc, Token("}", <<>>)))
    ELSE IF text[i] = COLON THEN Tokens(text, i + 1, Append(acc, Token(":", <<>>)))
    ELSE IF text[i] = QUOTE
         THEN LET closing == {j \in (i + 1)..Len(text) : text[j] = QUOTE}
              IN IF closing = {} THEN BadTokens
                 ELSE Tokens(text, Min(closing) + 1,
                             Append(acc, Token("string",
                                               SubSeq(text, i + 1, Min(closing) - 1))))
    ELSE BadTokens

Decoded(json, value) == [json |-> json, value |-> value]

\* json.loads: an empty object, an object of one string member, a lone
\* string (JSON, but not an object), or a JSONDecodeError.
json_loads(text) ==
    LET toks == Tokens(text, 1, <<>>)
        kinds == [i \in 1..Len(toks) |-> toks[i].kind]
    IN IF kinds = <<"{", "}">>
       THEN Decoded("object", <<>>)
       ELSE IF kinds = <<"{", "string", ":", "string", "}">>
       THEN Decoded("object", <<toks[2].content, toks[4].content>>)
       ELSE IF kinds = <<"string">>
       THEN Decoded("nonobject", toks[1].content)
       ELSE Decoded("invalid", <<>>)

\* The decoded form of a payload.
ObjectOf(payload) ==
    Decoded("object", <<(<<"extraction_notes">>), payload.extraction_notes>>)

\* lines 106-114: what extract_data decodes from response.content
ParseResponse(response_text) == json_loads(Strip(StripCodeBlock(response_text)))

\* FENCE + "json\n" + inner + "\n" + FENCE, and FENCE + "\n" + inner + "\n" + FENCE
JsonFenced(inner) == <<FENCE, JSONTAG, WS>> \o inner \o <<WS, FENCE>>
GenericFenced(inner) == <<FENCE, WS>> \o inner \o <<WS, FENCE>>

ParseInputs == {[payload |-> X, text |-> json_dumps(X)] : X \in Payloads}

InitParse ==
    /\ InitAgent
    /\ IdleValidate
    /\ parse_in \in ParseInputs
    /\ parse_out = NotRun
    /\ IdleConc
    /\ IdleApi

Parse ==
    /\ parse_out = NotRun
    /\ parse_out' = [bare |-> ParseResponse(parse_in.text),
                     json_fenced |-> ParseResponse(JsonFenced(parse_in.text)),
                     generic_fenced |-> ParseResponse(GenericFenced(parse_in.text))]
    /\ UNCHANGED <<parse_in, validate_in, validate_out, agent, conc, api>>

NextParse == Parse

SpecParse == InitParse /\ [][NextParse]_vars

-----------------------------------------------------------------------------
(* Response parsing on arbitrary reply texts.                              *)

MaxReplyLen == 6

ReplyPieces == {FENCE, JSONTAG, WS, LBRACE, RBRACE, PLAIN}

ReplyTexts == SeqsUpTo(ReplyPieces, MaxReplyLen)

InitReply ==
    /\ InitAgent
    /\ IdleValidate
    /\ parse_in \in {[text |-> text] : text \in ReplyTexts}
    /\ parse_out = NotRun
    /\ IdleConc
    /\ IdleApi

\* lines 106-114: the text handed to json.loads and what it decodes to
ParseReply ==
    /\ parse_out = NotRun
    /\ parse_out' = [chosen |-> Strip(StripCodeBlock(parse_in.text)),
                     decoded |-> ParseResponse(parse_in.text)]
    /\ UNCHANGED <<parse_in, validate_in, validate_out, agent, conc, api>>

NextReply == ParseReply

SpecReply == InitReply /\ [][NextReply]_vars

-----------------------------------------------------------------------------
(* Feedback rounds: one session re-run with feedback again and again, past *)
(* max_iterations.                                                         *)

MaxRounds == 4

RoundResponses == {InvokeFailure, ReplyNotJson, ReplyGood, ReplyLow}

extract_round(document_text, json_schema, response) ==
    /\ calls < MaxRounds
    /\ extract_call("s1", document_text, json_schema, "fix date format", response)

NextRounds ==
    \E request \in Requests, response \in RoundResponses :
        extract_round(request[1], request[2], response)

SpecRounds == Init /\ [][NextRounds]_vars

-----------------------------------------------------------------------------
(* Properties                                                              *)

Called == last.op = "extract"
Returned == Called /\ last.raised = "no"
\* the last call took the re-run branch: truthy feedback and a stored state
FeedbackRerun == Called /\ Truthy(last.feedback) /\ last.prev_state # NoSession
Validated == validate_out # NotRun /\ validate_out # RaisedTypeError

\* A required field is flagged: absent, null, or scored strictly below 0.7.
Flagged(data, conf, f) ==
    \/ f \notin DOMAIN data.items
    \/ data.items[f] = Null
    \/ (f \in DOMAIN conf.items /\ conf.items[f] < 70)

\* C1: validate_extraction sets status to needs_review exactly when some
\* field of schema.required is absent from extracted_data, null, or has a
\* recorded confidence strictly below 0.7, and to validated otherwise; a
\* score of exactly 0.7 and a field without a score pass.
C1_ValidateVerdict ==
    Validated =>
        LET required == validate_in.json_schema.required
            flagged == \E i \in 1..Len(required) :
                          Flagged(validate_in.extracted_data,
                                  validate_in.confidence_scores, required[i])
        IN validate_out.status = IF flagged THEN "needs_review" ELSE "validated"

\* Two required fields, one scored exactly 0.7 and one without a score, pass.
C1_Witness ==
    /\ Validated
    /\ validate_in.json_schema.required = <<"f1", "f2">>
    /\ DOMAIN validate_in.confidence_scores.items = {"f1"}
    /\ validate_in.confidence_scores.items["f1"] = 70
    /\ validate_out.status = "validated"

\* C2: a reply that is not JSON makes extract() return and persist status
\* "error", empty extracted_data and confidence_scores, and the working
\* state's iteration plus one.
C2_ParseErrorReturned ==
    (Called /\ last.response.kind = "reply" /\ last.response.json = "invalid") =>
        /\ last.raised = "no"
        /\ last.result.status = "error"
        /\ last.result.extracted_data = EmptyDict
        /\ last.result.confidence_scores = EmptyDict
        /\ last.result.iteration = last.initial_state.iteration + 1
        /\ sessions[last.session_id].status = "error"
        /\ sessions[last.session_id].iteration = last.initial_state.iteration + 1

\* C3: whenever the model invocation succeeds, extract() returns a result
\* object, whatever the reply was; only an invocation failure raises.
C3_OnlyInvokeFailureRaises ==
    Called => (last.raised # "no" <=> last.response.kind = "failure")

\* every call after the session's first completed one carried feedback
FeedbackOnly(session_id) ==
    \A i \in 2..Len(history[session_id]) : history[session_id][i]

C6_FeedbackKeepsDocumentAndSchema ==
    FeedbackRerun =>
        /\ last.initial_state.document_text = last.prev_state.document_text
        /\ last.initial_state.json_schema = last.prev_state.json_schema
        /\ \A i \in 1..Len(last.prompts) :
              /\ last.prompts[i].document = last.prev_state.document_text
              /\ last.prompts[i].schema_str = last.prev_state.json_schema
        /\ Returned =>
              /\ sessions[last.session_id].document_text = last.prev_state.document_text
              /\ sessions[last.session_id].json_schema = last.prev_state.json_schema

\* A completed feedback call whose arguments differ from the stored ones.
C6_Witness ==
    /\ FeedbackRerun
    /\ Returned
    /\ last.document_text # last.prev_state.document_text
    /\ last.json_schema # last.prev_state.json_schema
    /\ sessions[last.session_id].document_text = last.prev_state.document_text

\* C7: feedback for a session_id without a stored state starts a fresh
\* session: status started, iteration 0, the supplied document_text and
\* json_schema, the feedback kept as human_feedback; the call returns 1.
C7_FeedbackOnUnknownSessionIsFresh ==
    (Called /\ Truthy(last.feedback) /\ last.prev_state = NoSession) =>
        /\ last.initial_state.status = "started"
        /\ last.initial_state.iteration = 0
        /\ last.initial_state.document_text = last.document_text
        /\ last.initial_state.json_schema = last.json_schema
        /\ last.initial_state.human_feedback = last.feedback
        /\ Returned => last.result.iteration = 1

C7_Witness ==
    /\ Returned
    /\ Truthy(last.feedback)
    /\ last.prev_state = NoSession
    /\ last.result.iteration = 1
    /\ sessions[last.session_id].human_feedback = last.feedback

\* C8: a feedback call on a stored session builds its one prompt from the
\* stored document text and the new feedback text, and returns the stored
\* iteration plus one: 2 when it is the second of two completed calls.
C8_FeedbackPromptAndIteration ==
    FeedbackRerun =>
        /\ Len(last.prompts) = 1
        /\ last.prompts[1].document = last.prev_state.document_text
        /\ last.prompts[1].feedback_block = <<last.feedback>>
        /\ Returned =>
              /\ last.result.iteration = last.prev_state.iteration + 1
              /\ Len(history[last.session_id]) = 2 => last.result.iteration = 2

\* The second of two completed calls carried feedback and a document
\* argument other than the stored one.
C8_Witness ==
    /\ FeedbackRerun
    /\ Returned
    /\ Len(history[last.session_id]) = 2
    /\ last.document_text # last.prev_state.document_text
    /\ last.prompts[1].feedback_block = <<"fix date format">>
    /\ last.result.iteration = 2

\* C9: a failing model invocation propagates from extract() after a single
\* attempt and leaves the session's entry as it was (absent if it was).
C9_InvokeFailureLeavesStore ==
    (Called /\ last.response.kind = "failure") =>
        /\ last.raised = "invoke"
        /\ last.result = NoResult
        /\ last.trace = <<"extract">>
        /\ sessions[last.session_id] = last.prev_state

\* The invocation failed on a session that had a stored state.
C9_Witness ==
    /\ Called
    /\ last.response.kind = "failure"
    /\ last.prev_state # NoSession
    /\ sessions[last.session_id] = last.prev_state

\* C10: after a call that returned, get_session yields the state that call
\* produced: its status, extracted_data, confidence_scores and iteration are
\* those of the returned result.
C10_StoredStateIsReturnedResult ==
    Returned =>
        LET stored == get_session(last.session_id) IN
        /\ stored # NoSession
        /\ stored.status = last.result.status
        /\ stored.extracted_data = last.result.extracted_data
        /\ stored.confidence_scores = last.result.confidence_scores
        /\ stored.iteration = last.result.iteration

\* A returned call replaced an earlier entry with a different verdict.
C10_Witness ==
    /\ Returned
    /\ last.prev_state # NoSession
    /\ last.prev_state.status = "validated"
    /\ get_session(last.session_id).status = "needs_review"
    /\ last.result.status = "needs_review"

\* C11: in every returned result, needs_feedback is true exactly when the
\* returned status is needs_review.
C11_NeedsFeedbackIffNeedsReview ==
    Returned => (last.result.needs_feedback <=> last.result.status = "needs_review")

C11_Witness ==
    /\ Returned
    /\ last.result.status = "needs_review"
    /\ last.result.needs_feedback

\* the keys of a stored or returned dict (none for None)
Keys(d) == DOMAIN d.items

\* C17: in every stored state and returned result the keys of extracted_data
\* and confidence_scores are among the keys of json_schema.properties.
C17_KeysWithinProperties ==
    /\ \A s \in SessionIds :
          sessions[s] # NoSession =>
              /\ Keys(sessions[s].extracted_data) \subseteq sessions[s].json_schema.properties
              /\ Keys(sessions[s].confidence_scores) \subseteq sessions[s].json_schema.properties
    /\ Returned =>
          /\ Keys(last.result.extracted_data)
                \subseteq sessions[last.session_id].json_schema.properties
          /\ Keys(last.result.confidence_scores)
                \subseteq sessions[last.session_id].json_schema.properties

\* C18 (as stated): no completed call changes the document_text or the
\* json_schema stored for a session.
C18_DocumentAndSchemaNeverChange ==
    (Returned /\ last.prev_state # NoSession) =>
        /\ sessions[last.session_id].document_text = last.prev_state.document_text
        /\ sessions[last.session_id].json_schema = last.prev_state.json_schema

\* C18 (amended): a completed call with non-empty feedback leaves the stored
\* document_text and json_schema as they were; a completed call without
\* feedback stores the document_text and json_schema it was given.
C18_DocumentAndSchemaByBranch ==
    (Returned /\ last.prev_state # NoSession) =>
        LET stored == sessions[last.session_id] IN
        IF Truthy(last.feedback)
        THEN /\ stored.document_text = last.prev_state.document_text
             /\ stored.json_schema = last.prev_state.json_schema
        ELSE /\ stored.document_text = last.document_text
             /\ stored.json_schema = last.json_schema

\* A call without feedback replaced the stored document and schema.
C18_Witness ==
    /\ Returned
    /\ ~Truthy(last.feedback)
    /\ last.prev_state # NoSession
    /\ last.prev_state.document_text # last.document_text
    /\ last.prev_state.json_schema # last.json_schema
    /\ sessions[last.session_id].document_text = last.document_text
    /\ sessions[last.session_id].json_schema = last.json_schema

IsPrefix(a, b) == Len(a) <= Len(b) /\ SubSeq(b, 1, Len(a)) = a

RunWithMaxIterations(m) ==
    GraphInvoke([last.initial_state EXCEPT !.max_iterations = m], <<>>, last.response)

\* C16: max_iterations neither stops nor alters an attempt: every returned
\* call ran extract and validate once, a feedback call returns the stored
\* iteration plus one even at or past max_iterations, and status and
\* iteration are what they would be with any other max_iterations.
C16_MaxIterationsNotEnforced ==
    Returned =>
        /\ last.initial_state.max_iterations = MaxIterations
        /\ last.trace = <<"extract", "validate">>
        /\ FeedbackRerun => last.result.iteration = last.prev_state.iteration + 1
        /\ \A m \in 0..(MaxIterations + 2) :
              LET other == RunWithMaxIterations(m) IN
              /\ other.raised = "no"
              /\ other.trace = last.trace
              /\ other.state.status = last.result.status
              /\ other.state.iteration = last.result.iteration

\* A fourth attempt on a session that had reached max_iterations.
C16_Witness ==
    /\ Returned
    /\ FeedbackRerun
    /\ last.prev_state.iteration = last.prev_state.max_iterations
    /\ last.result.iteration > MaxIterations
    /\ last.result.status = "needs_review"

Parsed == parse_out # NotRun

\* C12: parsing the plain JSON serialization of an extraction payload yields
\* the payload again, also when a string value contains a fence marker.
C12_ParseOfDumpsIsIdentity ==
    Parsed => parse_out.bare = ObjectOf(parse_in.payload)

\* C13: for the same inner JSON content, the reply in a json-tagged fence,
\* the reply in a generic fence and the bare reply parse to the same result.
C13_FencedAndBareAgree ==
    Parsed =>
        /\ parse_out.json_fenced = parse_out.bare
        /\ parse_out.generic_fenced = parse_out.bare

\* Two feedback calls for one session that both read the same stored state
\* and both returned.
RacingFeedbackCalls(t, u) ==
    /\ t # u
    /\ threads[t].pc = "returned"
    /\ threads[u].pc = "returned"
    /\ threads[t].session_id = threads[u].session_id
    /\ Truthy(threads[t].feedback)
    /\ Truthy(threads[u].feedback)
    /\ threads[t].prev_state # NoSession
    /\ threads[t].prev_state = threads[u].prev_state

\* What a call stores when no other call runs during it.
StoredAlone(thread) ==
    GraphInvoke(InitialState(thread.prev_state, thread.document_text,
                             thread.json_schema, thread.feedback),
                thread.seen_checkpoint, thread.response).state

StoresOnlyOwnSession ==
    \A s \in ThreadSessionIds :
        sessions'[s] # sessions[s] =>
            \E t \in Threads :
                /\ threads[t].session_id = s
                /\ threads[t].pc = "finished"
                /\ threads'[t].pc = "returned"
                /\ sessions'[s] = threads[t].run.state

\* A call that shared its session with no other call read its session's entry
\* and stores what it stores when run alone, whatever calls ran on other
\* sessions meanwhile.
UnaffectedByOtherSessions ==
    \A t \in Threads :
        /\ InsideCall(threads[t]) /\ ~threads[t].overlapped =>
               sessions[threads[t].session_id] = threads[t].prev_state
        /\ threads[t].pc \in {"finished", "returned"} /\ ~threads[t].overlapped =>
               threads[t].run.state = StoredAlone(threads[t])
        /\ threads[t].pc = "returned" /\ ~threads[t].overlapped
               /\ threads[t].write_no = Len(history[threads[t].session_id]) =>
               sessions[threads[t].session_id] = StoredAlone(threads[t])

\* C15: under any interleaving, a call for one session neither reads nor
\* changes the Session Store entry of another session: the entry is what the
\* calls on its own session make it.
C15_SessionsIndependent ==
    /\ []UnaffectedByOtherSessions
    /\ [][StoresOnlyOwnSession]_vars

\* A whole call on s1 ran and stored while a feedback call on s2 was in
\* progress, and s2's entry is still the one that call read.
C15_Witness ==
    \E t, u \in Threads :
        /\ threads[t].pc = "returned"
        /\ threads[t].session_id = "s1"
        /\ sessions["s1"] = threads[t].run.state
        /\ threads[u].pc = "finished"
        /\ threads[u].session_id = "s2"
        /\ Truthy(threads[u].feedback)
        /\ threads[u].prev_state # NoSession
        /\ threads[t].call_no > threads[u].call_no
        /\ sessions["s2"] = threads[u].prev_state

\* C20: a session's state exists from its first completed extract() call until
\* explicit deletion; after delete_session, get_session(session_id) returns
\* absent.
C20_AbsentAfterDelete ==
    api_last.op = "delete" /\ api_last.status = 200
        => get_session(api_last.session_id) = NoSession

\* The values spec section 3 allows for status.
Statuses ==
    {"started", "extracted", "error", "validated", "needs_review", "reprocessing"}

\* The status of the working state along one graph run, in order: as the
\* run starts, then after each node that returned. (No node reads the message
\* log, so the statuses are those of the run on the checkpointed log.)
RECURSIVE StatusesFrom(_, _, _)
StatusesFrom(node, channels, response) ==
    IF node = END \/ NodeRaises(node, channels, response) # "no"
    THEN <<channels.status>>
    ELSE LET after == ApplyUpdate(channels, NodeUpdate(node, channels, response))
         IN <<channels.status>> \o StatusesFrom(NextNode(node, after), after, response)

\* The statuses the working state of the last call went through.
WorkingStatuses == StatusesFrom(EntryPoint, last.initial_state, last.response)

\* C21: in every working state, stored state and returned result, status is
\* one of started, extracted, error, validated, needs_review, reprocessing.
C21_StatusInDomain ==
    /\ \A s \in DOMAIN sessions : sessions[s] # NoSession => sessions[s].status \in Statuses
    /\ Called => \A i \in 1..Len(WorkingStatuses) : WorkingStatuses[i] \in Statuses
    /\ Returned => last.result.status \in Statuses

\* A feedback re-run whose working state went from reprocessing through error
\* to the verdict that was stored and returned.
C21_Witness ==
    /\ Returned
    /\ WorkingStatuses = <<"reprocessing", "error", "needs_review">>
    /\ sessions[last.session_id].status = "needs_review"
    /\ last.result.status = "needs_review"

\* C22: within one extract() call the "validate" node runs only when the
\* extraction step ended with status extracted; after a failed parse the call
\* ends with status error and the parse-error message as the last message.
C22_ValidateOnlyAfterExtracted ==
    Called =>
        /\ (\E i \in 1..Len(last.trace) : last.trace[i] = "validate") =>
               WorkingStatuses[2] = "extracted"
        /\ (last.response.kind = "reply" /\ last.response.json = "invalid") =>
               /\ last.trace = <<"extract">>
               /\ last.raised = "no"
               /\ last.result.status = "error"
               /\ LET messages == sessions[last.session_id].messages
                  IN messages[Len(messages)] =
                         AIMessage(Content("Error parsing extraction result", <<>>))

EntersReprocessing == Called /\ last.initial_state.status = "reprocessing"

PlainCallOnStoredSession ==
    Called /\ ~Truthy(last.feedback) /\ last.prev_state # NoSession

\* C24: a call with absent or empty feedback on a session that has a stored
\* state builds a fresh working state (iteration 0, status started, empty
\* message log, the supplied document_text and json_schema, the absent or
\* empty feedback) and returns iteration 1 whatever the stored iteration was.
C24_PlainCallStartsFresh ==
    PlainCallOnStoredSession =>
        /\ last.initial_state.iteration = 0
        /\ last.initial_state.status = "started"
        /\ last.initial_state.messages = <<>>
        /\ last.initial_state.document_text = last.document_text
        /\ last.initial_state.json_schema = last.json_schema
        /\ last.initial_state.human_feedback \in {NoFeedback, ""}
        /\ last.initial_state.extracted_data = PyNone
        /\ last.initial_state.confidence_scores = PyNone
        /\ Returned =>
               /\ last.result.iteration = 1
               /\ sessions[last.session_id].iteration = 1

\* A call without feedback, with another document, on a session stored at
\* iteration 2 returned iteration 1.
C24_Witness ==
    /\ PlainCallOnStoredSession
    /\ Returned
    /\ last.prev_state.iteration = 2
    /\ last.prev_state.document_text # last.document_text
    /\ last.result.iteration = 1

Visits(node) == Cardinality({i \in 1..Len(last.trace) : last.trace[i] = node})

\* C25: every extract() call performs exactly one attempt and terminates:
\* one model invocation, at most one validation and no way back into the
\* extraction, whatever the verdict, the feedback or the iteration count.
C25_OneAttemptPerCall ==
    Called =>
        /\ Visits("extract") = 1
        /\ Len(last.prompts) = 1
        /\ Visits("validate") <= 1
        /\ Visits("apply_feedback") = 0
        /\ last.trace \in {<<"extract">>, <<"extract", "validate">>}
        /\ Returned =>
               /\ last.trace = <<"extract", "validate">>
               /\ last.result.iteration = last.initial_state.iteration + 1

\* A feedback re-run that ended in needs_review below max_iterations made one
\* attempt and stopped.
C25_Witness ==
    /\ Returned
    /\ FeedbackRerun
    /\ last.result.status = "needs_review"
    /\ last.result.iteration < MaxIterations
    /\ last.trace = <<"extract", "validate">>
    /\ Len(last.prompts) = 1

\* The reply's fence markers, and those directly followed by the json tag.
Markers == {i \in 1..Len(parse_in.text) : parse_in.text[i] = FENCE}
JsonMarkers == {i \in Markers : i < Len(parse_in.text) /\ parse_in.text[i + 1] = JSONTAG}

\* The reply from position from up to the first fence marker at or after
\* it, or up to the end of the reply if none follows.
UpToNextMarker(from) ==
    LET later == {j \in Markers : j >= from}
    IN SubSeq(parse_in.text, from,
              IF later = {} THEN Len(parse_in.text) ELSE Min(later) - 1)

\* text without its leading and trailing white space
Trimmed(text) ==
    LET solid == {i \in 1..Len(text) : text[i] # WS}
    IN IF solid = {} THEN <<>>
       ELSE SubSeq(text, Min(solid), CHOOSE b \in solid : \A i \in solid : i <= b)

\* C26: the parser decodes, white space stripped, the text after the first
\* json-tagged fence marker up to the next fence marker (or the end of the
\* reply) if the reply has a json-tagged marker anywhere; else the text
\* between the first and the second fence marker if it has any marker; else
\* the whole reply.
C26_ContentChosenByPriority ==
    parse_out # NotRun =>
        /\ parse_out.chosen =
              Trimmed(IF JsonMarkers # {} THEN UpToNextMarker(Min(JsonMarkers) + 2)
                      ELSE IF Markers # {} THEN UpToNextMarker(Min(Markers) + 1)
                      ELSE parse_in.text)
        /\ parse_out.decoded = json_loads(parse_out.chosen)

\* A generic marker comes before the json-tagged one, and no marker follows:
\* the text after the json-tagged marker is stripped and decoded.
C26_Witness ==
    /\ parse_out # NotRun
    /\ parse_in.text = <<FENCE, FENCE, JSONTAG, WS, LBRACE, RBRACE>>
    /\ parse_out.chosen = <<LBRACE, RBRACE>>
    /\ parse_out.decoded.json = "object"

\* The groups of the validation note: the notes of the message validation
\* appended.
ValidationNotes == validate_out.messages[Len(validate_out.messages)].content.notes

FieldsOf(note) == {note.fields[i] : i \in 1..Len(note.fields)}

\* C27: when the verdict is needs_review the note lists the missing required
\* fields before the low-confidence required fields, each group in the order
\* of schema.required, a group only if it is non-empty, and no field in both
\* groups.
C27_MissingBeforeLowConfidence ==
    (Validated /\ validate_out.status = "needs_review") =>
        LET required == validate_in.json_schema.required
            data == validate_in.extracted_data.items
            conf == validate_in.confidence_scores.items
            Absentee(f) == f \notin DOMAIN data \/ data[f] = Null
            Doubtful(f) == ~Absentee(f) /\ f \in DOMAIN conf /\ conf[f] < 70
            absentees == SelectSeq(required, Absentee)
            doubtful == SelectSeq(required, Doubtful)
            group1 == Note("Missing required fields", absentees)
            group2 == Note("Low confidence fields", doubtful)
        IN /\ ValidationNotes =
                  IF absentees # <<>> /\ doubtful # <<>> THEN <<group1, group2>>
                  ELSE IF absentees # <<>> THEN <<group1>>
                  ELSE <<group2>>
           /\ \A i \in 1..Len(ValidationNotes) : ValidationNotes[i].fields # <<>>
           /\ \A i, j \in 1..Len(ValidationNotes) :
                  i # j => FieldsOf(ValidationNotes[i]) \cap FieldsOf(ValidationNotes[j]) = {}

\* required = [f2, f1], f2 present with a low score and f1 null with a low
\* score: f1 is listed as missing only, before f2 as low-confidence.
C27_Witness ==
    /\ Validated
    /\ validate_in.json_schema.required = <<"f2", "f1">>
    /\ validate_in.extracted_data = Dict([f \in Fields |-> IF f = "f1" THEN Null ELSE "v"])
    /\ validate_in.confidence_scores = Dict([f \in Fields |-> 69])
    /\ ValidationNotes = <<Note("Missing required fields", <<"f1">>),
                           Note("Low confidence fields", <<"f2">>)>>

\* C28: the prompt is determined by document text, schema and feedback; it
\* holds the feedback block if and only if the feedback is non-empty (absent
\* and empty feedback give the prompt without the block), always embeds the
\* document text and the schema in full and always ends with the
\* output-format directive.
C28_PromptByFeedback ==
    Called =>
        /\ last.prompts # <<>>
        /\ \A i \in 1..Len(last.prompts) :
              LET prompt == last.prompts[i]
                  feedback == last.initial_state.human_feedback
              IN /\ prompt.document = last.initial_state.document_text
                 /\ prompt.schema_str = last.initial_state.json_schema
                 /\ prompt.output_format
                 /\ feedback \in {NoFeedback, ""} => prompt.feedback_block = <<>>
                 /\ feedback \notin {NoFeedback, ""} => prompt.feedback_block = <<feedback>>
                 /\ DOMAIN prompt = {"schema_str", "document", "feedback_block", "output_format"}

\* A call with empty-string feedback on a stored session: the prompt has no
\* feedback block.
C28_Witness ==
    /\ Called
    /\ last.feedback = ""
    /\ last.prev_state # NoSession
    /\ last.prompts[1].feedback_block = <<>>
    /\ last.prompts[1].document = last.document_text
    /\ last.prompts[1].output_format

\* The position, among a session's completed calls, of the most recent call
\* that started afresh: the most recent one without feedback, or the first.
LastFreshCall(session_id) ==
    LET plain == {i \in 1..Len(history[session_id]) : ~history[session_id][i]}
    IN CHOOSE k \in plain \cup {1} : \A i \in plain \cup {1} : i <= k

\* C29: after any sequence of completed sequential calls on a session the
\* stored iteration is 1 plus the number of consecutive calls with non-empty
\* feedback made since the most recent call without feedback (or since the
\* first call); it is always at least 1.
C29_IterationCountsFeedbackRun ==
    \A s \in SessionIds :
        sessions[s] # NoSession =>
            /\ history[s] # <<>>
            /\ sessions[s].iteration = 1 + (Len(history[s]) - LastFreshCall(s))
            /\ sessions[s].iteration >= 1

\* Feedback, then no feedback, then feedback again: the stored iteration is 2.
C29_Witness ==
    \E s \in SessionIds :
        /\ Len(history[s]) = 3
        /\ history[s][2] = FALSE
        /\ history[s][3] = TRUE
        /\ sessions[s].iteration = 2

FrameFields ==
    {"document_text", "json_schema", "extracted_data", "confidence_scores",
     "human_feedback", "iteration", "max_iterations"}

\* C30: validate_extraction changes only status and messages; document_text,
\* json_schema, extracted_data, confidence_scores, human_feedback, iteration
\* and max_iterations are after validation what they were before it.
C30_ValidateChangesOnlyStatusAndMessages ==
    Validated =>
        /\ DOMAIN validate_out = DOMAIN validate_in
        /\ DOMAIN validate_out = FrameFields \cup {"status", "messages"}
        /\ \A field \in FrameFields : validate_out[field] = validate_in[field]
        /\ Len(validate_out.messages) = Len(validate_in.messages) + 1

\* A needs_review verdict on a state with data and low scores left both as
\* they were.
C30_Witness ==
    /\ Validated
    /\ validate_out.status = "needs_review"
    /\ validate_in.extracted_data = Dict([f \in Fields |-> "v"])
    /\ validate_in.confidence_scores = Dict([f \in Fields |-> 69])
    /\ validate_out.extracted_data = validate_in.extracted_data
    /\ validate_out.confidence_scores = validate_in.confidence_scores

\* the last request was served by a call of the agent
ServedByAgent(op) == api_last.op = op /\ api_last.status \in {200, 500}

\* A feedback request for a session without upload or without extraction
\* state is answered 404, and nothing of the agent or of pdf_storage changes.
FeedbackRejectedWithoutSession ==
    (/\ api_last'.op = "feedback"
     /\ \/ pdf_storage[api_last'.session_id] = NoUpload
        \/ get_session(api_last'.session_id) = NoSession)
    => /\ api_last'.status = 404
       /\ UNCHANGED <<agent, pdf_storage>>

\* A feedback request that reached the agent found the session's stored state
\* and its upload, and carried the request's feedback; an extract request
\* that reached the agent carried no feedback.
FeedbackOnlyOnStoredSession ==
    /\ ServedByAgent("feedback") =>
           /\ last.op = "extract"
           /\ last.session_id = api_last.session_id
           /\ last.prev_state # NoSession
           /\ pdf_storage[last.session_id] # NoUpload
           /\ last.feedback # NoFeedback
           /\ last.json_schema = last.prev_state.json_schema
    /\ ServedByAgent("extract") =>
           /\ last.op = "extract"
           /\ last.session_id = api_last.session_id
           /\ last.feedback = NoFeedback
           /\ last.initial_state.status = "started"

====
